---- MODULE Spec2Model ----
(***************************************************************************)
(* Model of CPS_Viz_v2.py: the cost-per-search formula compute_cps and the *)
(* Streamlit script main that evaluates it once for the current number of  *)
(* searches and once per value of a swept range.                           *)
(*                                                                         *)
(* Numbers.  Python floats are binary floating-point numbers: every        *)
(* operation returns the representable value nearest to the exact result   *)
(* (ties to even).  The model keeps that behaviour in a small format: a    *)
(* float is an integer count of quanta of 1/Scale, with at most PREC       *)
(* significant bits (IEEE-754 double has 53).  Python ints are Int.        *)
(***************************************************************************)
EXTENDS Integers, Sequences, FiniteSets, TLC

(* ------------------------------ bounds --------------------------------- *)
PREC == 4
FRAC == 2
MaxRows == 2
MaxLen == 3
MaxN_s == 3
MaxSweep == 3
MaxStep == 2

(* -------------------------- program constants -------------------------- *)
SliderMin == 1
SliderMax == 100000

ErrEmpty == "Please enter at least one platform."
ErrData == "Error processing platform data"
ErrRange == "Please ensure that Minimum N_s < Maximum N_s and N_s Step Size > 0."
ErrCalc == "An error occurred during calculation"

(* --------------------------- float arithmetic -------------------------- *)
RECURSIVE Pow2(_)
Pow2(n) ==
  IF n = 0 THEN 1 ELSE 2 * Pow2(n - 1)

Scale ==
  Pow2(FRAC)

Abs(x) ==
  IF x < 0 THEN -x ELSE x

\* n/d (n >= 0, d > 0) rounded to the nearest integer, ties to even
RoundHalfEven(n, d) ==
  LET q == n \div d
      r == n % d
  IN  IF 2 * r < d THEN q
      ELSE IF 2 * r > d THEN q + 1
      ELSE IF q % 2 = 0 THEN q ELSE q + 1

\* the least j with n/d < 2^(PREC+j): the exponent of the quantum of n/d
RECURSIVE Expo(_, _, _)
Expo(n, d, j) ==
  IF n < Pow2(PREC + j) * d THEN j ELSE Expo(n, d, j + 1)

\* the float nearest to the exact quotient n/d of two integers, d # 0
Rnd(n, d) ==
  LET neg == (n < 0) # (d < 0)
      an == Abs(n)
      ad == Abs(d)
      j == Expo(an, ad, 0)
      m == RoundHalfEven(an, ad * Pow2(j)) * Pow2(j)
  IN  IF neg THEN -m ELSE m

\* float(n) for a Python int n
FromInt(n) ==
  Rnd(n * Scale, 1)

FAdd(a, b) ==
  Rnd(a + b, 1)

FMul(a, b) ==
  Rnd(a * b, Scale)

\* a / b for floats, b # 0
FDiv(a, b) ==
  Rnd(a * Scale, b)

\* f"{x:.4f}": x as a count of ten-thousandths, correctly rounded
Fmt4(x) ==
  IF x < 0 THEN -RoundHalfEven(10000 * (-x), Scale)
  ELSE RoundHalfEven(10000 * x, Scale)

(* ------------------------------ built-ins ------------------------------ *)
Min2(a, b) ==
  IF a < b THEN a ELSE b

\* sum(xs): starts from the int 0 and adds the items from left to right
RECURSIVE SumFrom(_, _)
SumFrom(acc, xs) ==
  IF xs = <<>> THEN acc ELSE SumFrom(FAdd(acc, Head(xs)), Tail(xs))

\* variant: the last item is left out of the sum
PySum_DropLast(xs) ==
  IF xs = <<>> THEN 0 ELSE SumFrom(0, SubSeq(xs, 1, Len(xs) - 1))

PySum(xs) ==
  SumFrom(0, xs)

\* zip(xs, ys): pairs up to the shorter of the two
Zip(xs, ys) ==
  [i \in 1..Min2(Len(xs), Len(ys)) |-> <<xs[i], ys[i]>>]

\* list(range(start, stop, step)), step # 0
RECURSIVE PyRange(_, _, _)
PyRange(start, stop, step) ==
  IF (step > 0 /\ start >= stop) \/ (step < 0 /\ start <= stop) THEN <<>>
  ELSE <<start>> \o PyRange(start + step, stop, step)

(* ----------------------------- compute_cps ----------------------------- *)
Return(v) ==
  [ok |-> TRUE, val |-> v, exc |-> ""]

Raise(e) ==
  [ok |-> FALSE, val |-> 0, exc |-> e]

\* variant: the fixed costs are not divided by the number of searches
compute_cps_NoAmortize(P, C, A, N) ==
  IF ~(Len(P) = Len(C) /\ Len(C) = Len(A)) THEN Raise("ValueError")
  ELSE IF N = 0 THEN Raise("ZeroDivisionError")
  ELSE Return(FAdd(PySum(P),
                   PySum([i \in DOMAIN Zip(C, A) |->
                            FMul(Zip(C, A)[i][1], Zip(C, A)[i][2])])))

\* variant: the lengths are compared after the division
compute_cps_LateCheck(P, C, A, N) ==
  IF N = 0 THEN Raise("ZeroDivisionError")
  ELSE IF ~(Len(P) = Len(C) /\ Len(C) = Len(A)) THEN Raise("ValueError")
  ELSE Return(FAdd(FDiv(PySum(P), FromInt(N)),
                   PySum([i \in DOMAIN Zip(C, A) |->
                            FMul(Zip(C, A)[i][1], Zip(C, A)[i][2])])))

compute_cps(P, C, A, N) ==
  IF ~(Len(P) = Len(C) /\ Len(C) = Len(A)) THEN Raise("ValueError")
  ELSE LET total_platform_costs == PySum(P)
       IN  IF N = 0 THEN Raise("ZeroDivisionError")
           ELSE LET platform_costs_per_search ==
                      FDiv(total_platform_costs, FromInt(N))
                    products == [i \in DOMAIN Zip(C, A) |->
                                   FMul(Zip(C, A)[i][1], Zip(C, A)[i][2])]
                    api_call_costs_per_search == PySum(products)
                IN  Return(FAdd(platform_costs_per_search,
                                api_call_costs_per_search))

(* -------------------------------- state -------------------------------- *)
VARIABLES
  pc,              \* position of the script run / of the direct call
  N_s,             \* the slider value; the N_s argument of a direct call
  show_cps_range,  \* the checkbox
  N_s_min,         \* the three number inputs, Unbound when the box is off
  N_s_max,
  N_s_step,
  edited_df,       \* the rows of the data editor
  P_i_list,        \* the three lists handed to compute_cps
  C_i_list,
  A_i_list,
  cps,             \* <<>> until assigned, then <<the single-point value>>
  N_s_values,      \* <<>> until assigned, then the swept search volumes
  plot_data,       \* <<>> until built, then the rows of the plotted frame
  shown,           \* the CPS figures written to the page (st.markdown)
  errors,          \* the messages surfaced with st.error
  chart,           \* the charts rendered with st.altair_chart
  calls,           \* the N_s argument of every compute_cps call of the run
  ret,             \* <<>> or <<outcome of the direct call>>
  perm,            \* the reordering applied to the records
  ret_perm         \* <<>> or <<outcome of the call on the reordered lists>>

vars ==
  <<pc, N_s, show_cps_range, N_s_min, N_s_max, N_s_step, edited_df,
    P_i_list, C_i_list, A_i_list, cps, N_s_values, plot_data, shown,
    errors, chart, calls, ret, perm, ret_perm>>

Unbound ==
  "unbound"

(* ------------------------------- inputs -------------------------------- *)
DefaultN_s == 5000
DefaultMin == 1000
DefaultMax == 10000
DefaultStep == 500

SeqsUpTo(S, n) ==
  UNION {[1..k -> S] : k \in 0..n}

\* a cell of the data editor: a number, or text that float() rejects
Num(v) ==
  [text |-> FALSE, val |-> v]

Txt ==
  [text |-> TRUE, val |-> 0]

Row(p, c, a) ==
  [P |-> p, C |-> c, A |-> a]

\* $3.50 fixed, $0.25 per call, 2 calls;  $0.75, $0.50, 1;  $0.25, 0, 0
NumericPlatforms ==
  { Row(Num((7 * Scale) \div 2), Num(Scale \div 4), Num(2 * Scale)),
    Row(Num((3 * Scale) \div 4), Num(Scale \div 2), Num(Scale)),
    Row(Num(Scale \div 4), Num(0), Num(0)) }

Platforms ==
  NumericPlatforms \cup { Row(Txt, Num(0), Num(0)) }

N_sInputs ==
  {n \in (SliderMin..MaxN_s) \cup {DefaultN_s} : SliderMin <= n /\ n <= SliderMax}

SweepInputs ==
  ((-MaxSweep..MaxSweep) \X (-MaxSweep..MaxSweep) \X (-1..MaxStep))
    \cup {<<DefaultMin, DefaultMax, DefaultStep>>}

Column(df, name) ==
  [i \in DOMAIN df |-> df[i][name]]

\* Series.astype(float).tolist(): raises when a cell is not a number
AsFloatList(col) ==
  IF \E i \in DOMAIN col : col[i].text THEN Raise("ValueError")
  ELSE Return([i \in DOMAIN col |-> col[i].val])

\* variant: the upper bound is exclusive
N_sValues_Exclusive(lo, hi, step) ==
  PyRange(lo, hi, step)

\* list(range(int(N_s_min), int(N_s_max) + 1, int(N_s_step))); the number
\* inputs are created with int value and int step, so they hold ints
N_sValues(lo, hi, step) ==
  PyRange(lo, hi + 1, step)

\* the list comprehension over N_s_values: index of the first call that
\* raises, 0 when every call returns
RECURSIVE FirstRaise(_, _, _, _, _)
FirstRaise(P, C, A, values, k) ==
  IF k > Len(values) THEN 0
  ELSE IF ~compute_cps(P, C, A, values[k]).ok THEN k
  ELSE FirstRaise(P, C, A, values, k + 1)

\* variant: every point gets the CPS of the first search volume
CpsValues_First(P, C, A, values) ==
  [k \in DOMAIN values |-> compute_cps(P, C, A, values[1]).val]

CpsValues(P, C, A, values) ==
  [k \in DOMAIN values |-> compute_cps(P, C, A, values[k]).val]

\* pd.DataFrame({'Total Searches (N_s)': xs, 'CPS ($)': ys})
DataFrame(xs, ys) ==
  [k \in DOMAIN xs |-> <<xs[k], ys[k]>>]

(* --------------------------------- main -------------------------------- *)
\* the widgets' values at the start of a script run (lines 51-64, 93);
\* every interaction runs the script again from the top with nothing kept,
\* so a behaviour is one run
Widgets(n, show, sweep, df) ==
  /\ N_s = n
  /\ show_cps_range = show
  /\ N_s_min = IF show THEN sweep[1] ELSE Unbound
  /\ N_s_max = IF show THEN sweep[2] ELSE Unbound
  /\ N_s_step = IF show THEN sweep[3] ELSE Unbound
  /\ edited_df = df

Fresh ==
  /\ P_i_list = <<>> /\ C_i_list = <<>> /\ A_i_list = <<>>
  /\ cps = <<>> /\ N_s_values = <<>> /\ plot_data = <<>>
  /\ shown = <<>> /\ errors = <<>> /\ chart = <<>> /\ calls = <<>>
  /\ ret = <<>> /\ perm = <<>> /\ ret_perm = <<>>

Init ==
  /\ pc = "editor"
  /\ \E n \in N_sInputs, show \in BOOLEAN, sweep \in SweepInputs,
        df \in SeqsUpTo(Platforms, MaxRows) :
       /\ Widgets(n, show, sweep, df)
       /\ (~show => sweep = <<DefaultMin, DefaultMax, DefaultStep>>)
  /\ Fresh

\* variant: the empty table is reported but the run goes on
CheckEmpty_NoReturn ==
  /\ pc = "editor"
  /\ errors' = IF edited_df = <<>> THEN Append(errors, ErrEmpty) ELSE errors
  /\ pc' = "extract"
  /\ UNCHANGED <<N_s, show_cps_range, N_s_min, N_s_max, N_s_step, edited_df,
                 P_i_list, C_i_list, A_i_list, cps, N_s_values, plot_data,
                 shown, chart, calls, ret, perm, ret_perm>>

\* lines 95-97
CheckEmpty ==
  /\ pc = "editor"
  /\ IF edited_df = <<>>
       THEN /\ errors' = Append(errors, ErrEmpty)
            /\ pc' = "done"
       ELSE /\ pc' = "extract"
            /\ UNCHANGED errors
  /\ UNCHANGED <<N_s, show_cps_range, N_s_min, N_s_max, N_s_step, edited_df,
                 P_i_list, C_i_list, A_i_list, cps, N_s_values, plot_data,
                 shown, chart, calls, ret, perm, ret_perm>>

\* lines 100-107
Extract ==
  /\ pc = "extract"
  /\ LET p == AsFloatList(Column(edited_df, "P"))
         c == AsFloatList(Column(edited_df, "C"))
         a == AsFloatList(Column(edited_df, "A"))
     IN  IF p.ok /\ c.ok /\ a.ok
           THEN /\ P_i_list' = p.val
                /\ C_i_list' = c.val
                /\ A_i_list' = a.val
                /\ pc' = "compute"
                /\ UNCHANGED errors
           ELSE /\ errors' = Append(errors, ErrData)
                /\ pc' = "done"
                \* the lists before the failing conversion are bound
                /\ P_i_list' = IF p.ok THEN p.val ELSE P_i_list
                /\ C_i_list' = IF p.ok /\ c.ok THEN c.val ELSE C_i_list
                /\ UNCHANGED A_i_list
  /\ UNCHANGED <<N_s, show_cps_range, N_s_min, N_s_max, N_s_step, edited_df,
                 cps, N_s_values, plot_data, shown, chart, calls, ret, perm,
                 ret_perm>>

\* variant: the figure written to the page is the CPS at the slider minimum
ComputeSingle_Stale ==
  /\ pc = "compute"
  /\ LET r == compute_cps(P_i_list, C_i_list, A_i_list, N_s)
         d == compute_cps(P_i_list, C_i_list, A_i_list, SliderMin)
     IN  /\ calls' = Append(calls, N_s)
         /\ IF r.ok
              THEN /\ cps' = <<r.val>>
                   /\ shown' = Append(shown, Fmt4(d.val))
                   /\ pc' = "range"
              ELSE /\ pc' = "except"
                   /\ UNCHANGED <<cps, shown>>
  /\ UNCHANGED <<N_s, show_cps_range, N_s_min, N_s_max, N_s_step, edited_df,
                 P_i_list, C_i_list, A_i_list, N_s_values, plot_data,
                 errors, chart, ret, perm, ret_perm>>

\* lines 116-124
ComputeSingle ==
  /\ pc = "compute"
  /\ LET r == compute_cps(P_i_list, C_i_list, A_i_list, N_s)
     IN  /\ calls' = Append(calls, N_s)
         /\ IF r.ok
              THEN /\ cps' = <<r.val>>
                   /\ shown' = Append(shown, Fmt4(r.val))
                   /\ pc' = "range"
              ELSE /\ pc' = "except"
                   /\ UNCHANGED <<cps, shown>>
  /\ UNCHANGED <<N_s, show_cps_range, N_s_min, N_s_max, N_s_step, edited_df,
                 P_i_list, C_i_list, A_i_list, N_s_values, plot_data,
                 errors, chart, ret, perm, ret_perm>>

\* variant: the range check joins its two conditions with 'or'; range()
\* raises on a zero step
Sweep_OrGuard ==
  /\ pc = "range"
  /\ IF ~show_cps_range
       THEN /\ pc' = "done"
            /\ UNCHANGED <<N_s_values, plot_data, errors, chart, calls>>
       ELSE IF N_s_step = 0 /\ N_s_min < N_s_max
         THEN /\ pc' = "except"
              /\ UNCHANGED <<N_s_values, plot_data, errors, chart, calls>>
       ELSE IF N_s_min < N_s_max \/ N_s_step > 0
         THEN LET values == N_sValues(N_s_min, N_s_max, N_s_step)
                  bad == FirstRaise(P_i_list, C_i_list, A_i_list, values, 1)
                  cps_values == CpsValues(P_i_list, C_i_list, A_i_list, values)
                  frame == DataFrame(values, cps_values)
              IN  /\ N_s_values' = values
                  /\ UNCHANGED errors
                  /\ IF bad = 0
                       THEN /\ calls' = calls \o values
                            /\ plot_data' = frame
                            /\ chart' = Append(chart,
                                 [line |-> frame, point |-> <<N_s, cps[1]>>])
                            /\ pc' = "done"
                       ELSE /\ calls' = calls \o SubSeq(values, 1, bad)
                            /\ pc' = "except"
                            /\ UNCHANGED <<plot_data, chart>>
         ELSE /\ errors' = Append(errors, ErrRange)
              /\ pc' = "done"
              /\ UNCHANGED <<N_s_values, plot_data, chart, calls>>
  /\ UNCHANGED <<N_s, show_cps_range, N_s_min, N_s_max, N_s_step, edited_df,
                 P_i_list, C_i_list, A_i_list, cps, shown, ret, perm,
                 ret_perm>>

\* lines 127-166
Sweep ==
  /\ pc = "range"
  /\ IF ~show_cps_range
       THEN /\ pc' = "done"
            /\ UNCHANGED <<N_s_values, plot_data, errors, chart, calls>>
       ELSE IF N_s_min < N_s_max /\ N_s_step > 0
         THEN LET values == N_sValues(N_s_min, N_s_max, N_s_step)
                  bad == FirstRaise(P_i_list, C_i_list, A_i_list, values, 1)
                  cps_values == CpsValues(P_i_list, C_i_list, A_i_list, values)
                  frame == DataFrame(values, cps_values)
              IN  /\ N_s_values' = values
                  /\ UNCHANGED errors
                  /\ IF bad = 0
                       THEN /\ calls' = calls \o values
                            /\ plot_data' = frame
                            /\ chart' = Append(chart,
                                 [line |-> frame, point |-> <<N_s, cps[1]>>])
                            /\ pc' = "done"
                       ELSE /\ calls' = calls \o SubSeq(values, 1, bad)
                            /\ pc' = "except"
                            /\ UNCHANGED <<plot_data, chart>>
         ELSE /\ errors' = Append(errors, ErrRange)
              /\ pc' = "done"
              /\ UNCHANGED <<N_s_values, plot_data, chart, calls>>
  /\ UNCHANGED <<N_s, show_cps_range, N_s_min, N_s_max, N_s_step, edited_df,
                 P_i_list, C_i_list, A_i_list, cps, shown, ret, perm,
                 ret_perm>>

\* lines 167-168
Except ==
  /\ pc = "except"
  /\ errors' = Append(errors, ErrCalc)
  /\ pc' = "done"
  /\ UNCHANGED <<N_s, show_cps_range, N_s_min, N_s_max, N_s_step, edited_df,
                 P_i_list, C_i_list, A_i_list, cps, N_s_values, plot_data,
                 shown, chart, calls, ret, perm, ret_perm>>

Next ==
  \/ CheckEmpty
  \/ Extract
  \/ ComputeSingle
  \/ Sweep
  \/ Except

Spec ==
  Init /\ [][Next]_vars

(* ----------------------- compute_cps called directly ------------------- *)
Perms(n) ==
  {f \in [1..n -> 1..n] : \A i, j \in 1..n : f[i] = f[j] => i = j}

Reorder(xs, p) ==
  [i \in DOMAIN xs |-> xs[p[i]]]

Vals(col) ==
  [i \in DOMAIN col |-> col[i].val]

\* the arguments: three lists of up to MaxLen items, of equal length or not,
\* and any int for N_s
InitCps ==
  /\ pc = "call"
  /\ \E rows \in SeqsUpTo(NumericPlatforms, MaxLen) :
       \E lp, lc, la \in 0..Len(rows) :
         /\ P_i_list = SubSeq(Vals(Column(rows, "P")), 1, lp)
         /\ C_i_list = SubSeq(Vals(Column(rows, "C")), 1, lc)
         /\ A_i_list = SubSeq(Vals(Column(rows, "A")), 1, la)
  /\ N_s \in (-MaxN_s)..MaxN_s
  /\ show_cps_range = FALSE
  /\ N_s_min = Unbound /\ N_s_max = Unbound /\ N_s_step = Unbound
  /\ edited_df = <<>>
  /\ cps = <<>> /\ N_s_values = <<>> /\ plot_data = <<>>
  /\ shown = <<>> /\ errors = <<>> /\ chart = <<>> /\ calls = <<>>
  /\ ret = <<>> /\ perm = <<>> /\ ret_perm = <<>>

Call ==
  /\ pc = "call"
  /\ ret' = <<compute_cps(P_i_list, C_i_list, A_i_list, N_s)>>
  /\ pc' = "returned"
  /\ UNCHANGED <<N_s, show_cps_range, N_s_min, N_s_max, N_s_step, edited_df,
                 P_i_list, C_i_list, A_i_list, cps, N_s_values, plot_data,
                 shown, errors, chart, calls, perm, ret_perm>>

\* the same call with the three lists reordered by one permutation
CallReordered ==
  /\ pc = "returned"
  /\ Len(P_i_list) = Len(C_i_list) /\ Len(C_i_list) = Len(A_i_list)
  /\ \E p \in Perms(Len(P_i_list)) :
       /\ perm' = p
       /\ ret_perm' = <<compute_cps(Reorder(P_i_list, p), Reorder(C_i_list, p),
                                    Reorder(A_i_list, p), N_s)>>
  /\ pc' = "reordered"
  /\ UNCHANGED <<N_s, show_cps_range, N_s_min, N_s_max, N_s_step, edited_df,
                 P_i_list, C_i_list, A_i_list, cps, N_s_values, plot_data,
                 shown, errors, chart, calls, ret>>

NextCps ==
  \/ Call
  \/ CallReordered

SpecCps ==
  InitCps /\ [][NextCps]_vars

(* ------------------------- exact (real) arithmetic --------------------- *)
RECURSIVE ExactSumTo(_, _)
ExactSumTo(xs, k) ==
  IF k = 0 THEN 0 ELSE ExactSumTo(xs, k - 1) + xs[k]

\* sum over i <= k of C[i]*A[i], in quanta of 1/(Scale*Scale)
RECURSIVE ExactDotTo(_, _, _)
ExactDotTo(C, A, k) ==
  IF k = 0 THEN 0 ELSE ExactDotTo(C, A, k - 1) + C[k] * A[k]

RECURSIVE OddPart(_)
OddPart(k) ==
  IF k % 2 = 0 THEN OddPart(k \div 2) ELSE k

\* k quanta is a value of the float format
IsFloat(k) ==
  k = 0 \/ OddPart(Abs(k)) < Pow2(PREC)

\* the exact quotient n/d (d > 0) is a value of the float format
IsFloatQ(n, d) ==
  n % d = 0 /\ IsFloat(n \div d)

EqualLengths ==
  Len(P_i_list) = Len(C_i_list) /\ Len(C_i_list) = Len(A_i_list)

\* no operation of sum(P)/N + sum(C[i]*A[i]), taken in list order, rounds
ExactOps(P, C, A, N) ==
  /\ \A k \in 1..Len(P) : IsFloat(ExactSumTo(P, k))
  /\ IsFloat(N * Scale)
  /\ IsFloatQ(ExactSumTo(P, Len(P)), N)
  /\ \A i \in 1..Len(C) : IsFloatQ(C[i] * A[i], Scale)
  /\ \A k \in 1..Len(C) : IsFloatQ(ExactDotTo(C, A, k), Scale)
  /\ IsFloatQ(ExactSumTo(P, Len(P)) * Scale + N * ExactDotTo(C, A, Len(C)),
              N * Scale)

Returned ==
  pc \in {"returned", "reordered"}

(* ------------------------------ properties ----------------------------- *)

\* C1: with three lists of equal length and N_s <= 0, compute_cps raises
\* and returns no number.
C1_NonPositiveRejected ==
  (Returned /\ EqualLengths /\ N_s <= 0) => ~ret[1].ok

\* C8: when the three lists do not all have the same length the call raises
\* the length error, whatever N_s is (0 included), and returns no value.
C8_MismatchRaises ==
  (Returned /\ ~EqualLengths) => ret[1] = Raise("ValueError")

C8_Witness ==
  /\ pc = "returned" /\ N_s = 0
  /\ Len(P_i_list) = 2 /\ Len(C_i_list) = 2 /\ Len(A_i_list) = 1
  /\ ret[1].exc = "ValueError"

\* C4: for lists of equal length and N_s > 0 the call returns a number, and
\* in exact arithmetic (no operation rounds) that number is
\* sum(P)/N_s + sum of C[i]*A[i].
C4_ExactFormula ==
  (Returned /\ EqualLengths /\ N_s > 0) =>
     /\ ret[1].ok
     /\ ExactOps(P_i_list, C_i_list, A_i_list, N_s) =>
          ret[1].val * N_s * Scale =
            ExactSumTo(P_i_list, Len(P_i_list)) * Scale
              + N_s * ExactDotTo(C_i_list, A_i_list, Len(C_i_list))

\* $0.75 and $0.25 fixed over 2 searches, one platform at $0.50 x 1 call:
\* 1/2 + 0.5 = 1
C4_Witness ==
  /\ pc = "returned" /\ N_s = 2
  /\ P_i_list = <<(3 * Scale) \div 4, Scale \div 4>>
  /\ C_i_list = <<Scale \div 2, 0>>
  /\ A_i_list = <<Scale, 0>>
  /\ ExactOps(P_i_list, C_i_list, A_i_list, N_s)
  /\ ret[1] = Return(Scale)

\* C9 as stated: for N_s > 0 the result on the reordered lists equals the
\* result on the original lists.
C9_OrderInvariant ==
  (pc = "reordered" /\ N_s > 0) => ret_perm = ret

\* C9 amended: for N_s > 0 both calls return a number, and the two numbers
\* are equal whenever no operation rounds in either order.
C9_OrderInvariantExact ==
  (pc = "reordered" /\ N_s > 0) =>
     /\ ret[1].ok /\ ret_perm[1].ok
     /\ ( /\ ExactOps(P_i_list, C_i_list, A_i_list, N_s)
          /\ ExactOps(Reorder(P_i_list, perm), Reorder(C_i_list, perm),
                      Reorder(A_i_list, perm), N_s) )
        => ret_perm = ret

C9_Witness ==
  /\ pc = "reordered" /\ N_s = 2
  /\ P_i_list = <<(3 * Scale) \div 4, Scale \div 4>>
  /\ C_i_list = <<Scale \div 2, 0>>
  /\ perm = <<2, 1>>
  /\ ExactOps(P_i_list, C_i_list, A_i_list, N_s)
  /\ ExactOps(Reorder(P_i_list, perm), Reorder(C_i_list, perm),
              Reorder(A_i_list, perm), N_s)
  /\ ret_perm = ret

(* --------------------------- properties of main ------------------------ *)
RangeOk ==
  show_cps_range /\ N_s_min < N_s_max /\ N_s_step > 0

RangeRejected ==
  show_cps_range /\ (N_s_min >= N_s_max \/ N_s_step <= 0)

\* the run has gone through the range check of line 128
PastRangeCheck ==
  cps # <<>> /\ pc \in {"except", "done"}

\* C2: with the range box ticked and min >= max or step <= 0, compute_cps is
\* called for no sweep value, no series and no chart are produced, and the
\* finished run has surfaced an error (the range message when the run got
\* as far as the range check).
C2_InvalidRangeNoSweep ==
  RangeRejected =>
     /\ N_s_values = <<>> /\ plot_data = <<>> /\ chart = <<>>
     /\ Len(calls) <= 1
     /\ \A i \in DOMAIN calls : calls[i] = N_s
     /\ pc = "done" => errors # <<>>
     /\ (pc = "done" /\ cps # <<>>) => errors = <<ErrRange>>

C2_Witness ==
  /\ pc = "done" /\ RangeRejected /\ N_s_min < N_s_max /\ N_s_step = 0
  /\ shown # <<>> /\ calls = <<N_s>> /\ errors = <<ErrRange>>

\* C3: with an empty table the run surfaces the empty-table error and ends
\* before compute_cps is called: nothing is displayed, swept or charted.
C3_EmptyStops ==
  edited_df = <<>> =>
     /\ calls = <<>> /\ cps = <<>> /\ shown = <<>>
     /\ N_s_values = <<>> /\ plot_data = <<>> /\ chart = <<>>
     /\ pc \in {"editor", "done"}
     /\ pc = "done" => errors = <<ErrEmpty>>

C3_Witness ==
  /\ edited_df = <<>> /\ pc = "done" /\ errors = <<ErrEmpty>>
  /\ calls = <<>> /\ RangeOk

\* C5: for min < max and step > 0 the generated sequence is min, min+step,
\* ... up to the largest such value <= max: strictly increasing, with
\* floor((max-min)/step)+1 elements, and it contains max exactly when
\* (max-min) is a multiple of step.
C5_SweepSequence ==
  /\ N_s_values # <<>> => RangeOk
  /\ (RangeOk /\ PastRangeCheck) =>
       LET n == Len(N_s_values)
       IN  /\ n = ((N_s_max - N_s_min) \div N_s_step) + 1
           /\ \A k \in 1..n : N_s_values[k] = N_s_min + (k - 1) * N_s_step
           /\ \A k \in 1..(n - 1) : N_s_values[k] < N_s_values[k + 1]
           /\ N_s_values[n] <= N_s_max
           /\ N_s_values[n] + N_s_step > N_s_max
           /\ (\E k \in 1..n : N_s_values[k] = N_s_max)
                <=> ((N_s_max - N_s_min) % N_s_step = 0)

C5_Witness ==
  /\ show_cps_range
  /\ N_s_min = 1000 /\ N_s_max = 10000 /\ N_s_step = 500
  /\ Len(N_s_values) = 19
  /\ N_s_values[1] = 1000 /\ N_s_values[2] = 1500 /\ N_s_values[19] = 10000

\* the series pairs every generated search volume, in order, with the value
\* compute_cps returns for the records at that volume
SeriesMatches ==
  /\ Len(plot_data) = Len(N_s_values)
  /\ \A k \in DOMAIN N_s_values :
       LET r == compute_cps(P_i_list, C_i_list, A_i_list, N_s_values[k])
       IN  r.ok /\ plot_data[k] = <<N_s_values[k], r.val>>

\* C6 as stated: for every sweep with min < max and step > 0 the output
\* series has the length of the generated sequence and its k-th entry pairs
\* the k-th search volume with compute_cps at that volume.
C6_SeriesForEverySweep ==
  (RangeOk /\ pc = "done" /\ cps # <<>>) => SeriesMatches

\* C6 amended: the same for every such sweep whose sequence does not contain
\* 0 (the series is then the one charted); a sweep whose sequence contains 0
\* produces no series at all and ends in the calculation error.
C6_SeriesWhenNoZero ==
  (RangeOk /\ pc = "done" /\ cps # <<>>) =>
     IF \E k \in DOMAIN N_s_values : N_s_values[k] = 0
       THEN plot_data = <<>> /\ chart = <<>> /\ errors = <<ErrCalc>>
       ELSE /\ SeriesMatches
            /\ Len(chart) = 1 /\ chart[1].line = plot_data
            /\ errors = <<>>

C6_Witness ==
  /\ pc = "done" /\ show_cps_range
  /\ N_s_min = 1 /\ N_s_max = 3 /\ N_s_step = 1
  /\ Len(edited_df) = 2
  /\ Len(plot_data) = 3
  /\ plot_data[1][2] > plot_data[2][2] /\ plot_data[2][2] > plot_data[3][2]
  /\ SeriesMatches

\* C7: a sweep that passes the range check but whose sequence contains a
\* search volume <= 0 ends in a surfaced error, and no series or chart holds
\* a CPS for a search volume <= 0.
C7_NoNonPositivePoint ==
  /\ \A k \in DOMAIN plot_data : plot_data[k][1] > 0
  /\ \A c \in DOMAIN chart :
       \A k \in DOMAIN chart[c].line : chart[c].line[k][1] > 0
  /\ ( /\ RangeOk /\ pc = "done" /\ cps # <<>>
       /\ \E k \in DOMAIN N_s_values : N_s_values[k] <= 0 )
     => errors # <<>>

\* C10: the sweep is attempted only after the single-point CPS has been
\* computed and displayed: without it no sweep value is evaluated and no
\* chart is rendered, and whatever the sweep does the displayed figure is
\* the formatted value compute_cps returned for the current N_s.
C10_SingleBeforeSweep ==
  /\ ( \/ Len(calls) > 1 \/ N_s_values # <<>> \/ plot_data # <<>>
       \/ chart # <<>> \/ pc = "range"
       \/ \E i \in DOMAIN errors : errors[i] = ErrRange )
     => (cps # <<>> /\ shown # <<>> /\ calls[1] = N_s)
  /\ cps = <<>> =>
       /\ shown = <<>> /\ Len(calls) <= 1
       /\ N_s_values = <<>> /\ plot_data = <<>> /\ chart = <<>>
  /\ cps # <<>> =>
       LET r == compute_cps(P_i_list, C_i_list, A_i_list, N_s)
       IN  r.ok /\ cps = <<r.val>> /\ shown = <<Fmt4(r.val)>>
  /\ \A c \in DOMAIN chart : chart[c].point = <<N_s, cps[1]>>

\* a sweep that raised at search volume 0, after $1.0000 was displayed for
\* two platforms ($0.75 and $0.25 fixed, $0.50 of calls) at N_s = 2
C10_Witness ==
  /\ pc = "done" /\ errors = <<ErrCalc>> /\ N_s = 2
  /\ Len(calls) > 1 /\ calls[Len(calls)] = 0
  /\ shown = <<10000>> /\ chart = <<>>

====
